---- MODULE Spec2Model ----
(***************************************************************************)
(* Model of the fund-relay engine of xmr/Mixer.py (DominoMixer and         *)
(* LeafwayMixer) driving the wallet sessions of xmr/Wallet.py.             *)
(*                                                                         *)
(* A run is one call of start().  Every await of start() is one step of    *)
(* the model; what the browser session answers (fee quote, balance, the    *)
(* outcome of a send, a failure of the session itself) is chosen by the    *)
(* environment.  Amounts are whole atomic units; amount / k is kept as an  *)
(* exact fraction <<numerator, denominator>> in lowest terms.              *)
(*                                                                         *)
(* The second part models wallet generation of xmr/Wallet.py: the worker   *)
(* pool of Wallet.generateBulk and Wallet._generateWalletWithRetry.        *)
(***************************************************************************)
EXTENDS Integers, Sequences, FiniteSets, TLC

\* ---------------------------------------------------------------- bounds
MaxMiddlemen == 2
MaxAttempts == 2
MaxAmount == 2
MaxFee == 1
MaxBalance == 6
MaxTotal == 3
MaxWorkers == 2
MaxRetries == 3

\* ------------------------------------------------------------- constants
TRANSFER_APPROX_MINS == 25
POLL_TRIES == 50
DEFAULT_MAX_RETRIES == 5

\* --------------------------------------------------------------- wallets
\* WalletChain: from_wallet, middlemen, to_wallet.  A wallet is known by
\* its address; the caller's middlemen are 1..k.
from_wallet == 0
to_wallet == MaxMiddlemen + 1
Middlemen == 1..MaxMiddlemen
Wallets == {from_wallet, to_wallet} \cup Middlemen
address(w) == w

Amounts == 1..MaxAmount
AttemptCounts == 1..MaxAttempts
Fees == 0..MaxFee
Balances == 0..MaxBalance

VARIABLES
    caller_list,      \* the list object the caller put in WalletChain.middlemen
    chain,            \* wallet_chain.middlemen (self._chain.middlemen)
    mixer,            \* which mixer was constructed: "none", "domino", "leafway"
    pc,               \* position of start()
    amount,           \* start(amount, ...)
    max_attempts,     \* start(..., max_attempts)
    path,             \* DominoMixer.start: path
    current_wallet,   \* DominoMixer.start: current_wallet / the wallet of the open `async with`
    i,                \* index of the hop (Domino) or of the leg (Leafway)
    attempt,          \* index of the retry loop
    transferFee,      \* local transferFee: <<v>> a number, <<>> not a number
    balance,          \* local balance:     <<v>> a number, <<>> not a number
    transfer_amount,  \* LeafwayMixer.start: transfer_amount, a fraction
    sent,             \* arguments of the latest wallet.send call: <<amount, to_address, priority>>
    browser,          \* browser[w]: Wallet._b of wallet w is a launched browser
    exc,              \* the exception in flight or raised: [kind, from, to, attempts]
    minutes,          \* what approxMinutes returned when it was last read; 0 before
    tries,            \* how many times wallet.send was called for the current hop or leg
    log               \* what the run did so far, in order: sessions opened and closed, checks,
                      \* prints, sleeps, and how each retry loop ended ("send" accepted,
                      \* "exhausted"); DominoMixer also prints every failed attempt

\* Wallet.generateBulk and Wallet._generateWalletWithRetry
VARIABLES
    call,             \* which of the two was called and where it is: "none", "gather"
                      \* (generateBulk awaits its tasks), "direct" (_generateWalletWithRetry
                      \* called on its own), "returned", "raised"
    max_workers,      \* generateBulk(outfp, max_workers, total)
    total,
    max_retries,      \* _generateWalletWithRetry(context, max_retries)
    semaphore,        \* free permits of asyncio.Semaphore(max_workers)
    file_lock,        \* the task inside `async with file_lock`, 0 when it is free
    wallets,          \* the list generateBulk returns
    outfp,            \* the lines of the output file
    pages,            \* how many pages of the browser context are open
    task              \* task[t]: [pc, attempt, wallet] of worker t, or of the direct call (t = 1)

vars == <<caller_list, chain, mixer, pc, amount, max_attempts, path, current_wallet,
          i, attempt, transferFee, balance, transfer_amount, sent, browser, exc,
          minutes, tries, log,
          call, max_workers, total, max_retries, semaphore, file_lock, wallets, outfp,
          pages, task>>

generateVars ==
    <<call, max_workers, total, max_retries, semaphore, file_lock, wallets, outfp, pages, task>>

mixerVars ==
    <<caller_list, chain, mixer, pc, amount, max_attempts, path, current_wallet,
      i, attempt, transferFee, balance, transfer_amount, sent, browser, exc,
      minutes, tries, log>>

\* ------------------------------------------------------------- fractions
RECURSIVE GCD(_, _)
GCD(a, b) == IF b = 0 THEN a ELSE GCD(b, a % b)

\* Python's amount / k on a positive k, as an exact fraction.
Div(n, d) == <<n \div GCD(n, d), d \div GCD(n, d)>>
Whole(n) == <<n, 1>>

\* ------------------------------------------------------------ exceptions
NoException == [kind |-> "none", from |-> from_wallet, to |-> from_wallet, attempts |-> 0]
Raised(kind) == [kind |-> kind, from |-> from_wallet, to |-> from_wallet, attempts |-> 0]

\* --------------------------------------------------------------- the log
Ev(ev, ph, hop, from, to, ok) ==
    [ev |-> ev, ph |-> ph, hop |-> hop, from |-> from, to |-> to, ok |-> ok]

\* ----------------------------------------------------------- the session
\* What _ActiveBrowserWallet.getTransferFee / getBalance hand back: a number,
\* or (after 50 polls without a parsable text) the raw text / None.
IsNumber(x) == Len(x) = 1
Value(x) == x[1]

\* The page text parses as a number for the first time at poll `first`
\* (POLL_TRIES + 1: at none of the polls of the loop).
PollCases == {1, POLL_TRIES, POLL_TRIES + 1}

\* _ActiveBrowserWallet.getBalance: balance = None; up to POLL_TRIES polls,
\* break at the first text float() accepts; return balance.
getBalance(first, shown) == IF first <= POLL_TRIES THEN <<shown>> ELSE <<>>

\* _ActiveBrowserWallet.getTransferFee: up to POLL_TRIES polls, fee is the
\* text of the page, replaced by float(...) at the first text that parses;
\* return fee.
getTransferFee(first, shown) == IF first <= POLL_TRIES THEN <<shown>> ELSE <<>>

FeeResults == {getTransferFee(n, f) : n \in PollCases, f \in Fees}
BalanceResults == {getBalance(n, b) : n \in PollCases, b \in Balances}

\* ---------------------------------------------------------- construction
Orderings(s) ==
    {[j \in 1..Len(s) |-> s[p[j]]] :
        p \in {q \in [1..Len(s) -> 1..Len(s)] : \A a, b \in 1..Len(s) : q[a] = q[b] => a = b}}

Init ==
    /\ caller_list \in {[j \in 1..k |-> j] : k \in 0..MaxMiddlemen}
    /\ chain = caller_list
    /\ mixer = "none"
    /\ pc = "new"
    /\ amount = 0
    /\ max_attempts = 0
    /\ path = <<>>
    /\ current_wallet = from_wallet
    /\ i = 0
    /\ attempt = 0
    /\ transferFee = <<>>
    /\ balance = <<>>
    /\ transfer_amount = <<>>
    /\ sent = <<>>
    /\ browser = [w \in Wallets |-> FALSE]
    /\ exc = NoException
    /\ minutes = 0
    /\ tries = 0
    /\ log = <<>>
    /\ call = "none"
    /\ max_workers = 0
    /\ total = 0
    /\ max_retries = 0
    /\ semaphore = 0
    /\ file_lock = 0
    /\ wallets = <<>>
    /\ outfp = <<>>
    /\ pages = 0
    /\ task = [t \in 1..MaxTotal |-> [pc |-> "idle", attempt |-> 0, wallet |-> <<>>]]

\* A shuffle that draws every position anew from the elements of the list.
Shuffled_WithReplacement(s) == [1..Len(s) -> {s[j] : j \in 1..Len(s)}]

\* DominoMixer.__init__ / LeafwayMixer.__init__: copy, shuffle, keep the chain.
Shuffled(s) == Orderings(s)

Construct(kind) ==
    /\ pc = "new"
    /\ chain' \in Shuffled(chain)
    /\ mixer' = kind
    /\ pc' = "ready"
    /\ UNCHANGED <<generateVars, caller_list, minutes, amount, max_attempts, path, current_wallet, i, attempt,
                   transferFee, balance, transfer_amount, sent, browser, exc, tries, log>>

\* A second DominoMixer or LeafwayMixer is constructed from the WalletChain
\* object the first one keeps in self._chain, before the first one is
\* started: wallet_chain.middlemen is rebound to a new shuffled copy.
ConstructAgain ==
    /\ pc = "ready"
    /\ chain' \in Shuffled(chain)
    /\ UNCHANGED <<generateVars, caller_list, mixer, pc, amount, max_attempts, path, current_wallet, i,
                   attempt, transferFee, balance, transfer_amount, sent, browser, exc,
                   minutes, tries, log>>

\* ------------------------------------------------- Wallet session steps
\* wallet.send: returns, raises TransactionException (the page shows an error
\* message), or fails in the browser layer.
SendOutcomes == {"ok", "TransactionException", "SessionError"}

\* Wallet.__aenter__: the browser is launched first, then the login may fail.
\* __aexit__ is not run for a failed __aenter__.
AEnterOk(w) == browser' = [browser EXCEPT ![w] = TRUE]
AEnterFails(w) == \E launched \in BOOLEAN : browser' = [browser EXCEPT ![w] = launched]

\* An exit that leaves the browser running.
AExit_KeepsBrowser(w) == browser' = browser

\* Wallet.__aexit__: close the browser, stop playwright.
AExit(w) == browser' = [browser EXCEPT ![w] = FALSE]

\* At the end of an `async with` block the page with its send form is gone,
\* and what the block assigned (transferFee, balance, transfer_amount) is
\* assigned again before it is read again: the model forgets it here.
BlockLocalsDead ==
    /\ transferFee' = <<>>
    /\ balance' = <<>>
    /\ transfer_amount' = <<>>
    /\ sent' = <<>>

\* ------------------------------------------------------------ DominoMixer
DominoTransfersN == 1 + Len(chain)
DominoApproxMinutes == DominoTransfersN * TRANSFER_APPROX_MINS

\* A reserve of one fee only, whatever the hop.
DominoRequired_OneFee(fee, hop) == amount + fee

\* The right-hand side of the preflight comparison at hop `hop`.
DominoRequired(fee, hop) == amount + fee * (DominoTransfersN - hop)

\* A retry loop that runs once too often.
DominoMoreAttempts_OneMore == attempt <= max_attempts

\* for attempt in range(max_attempts): is there another turn?
DominoMoreAttempts == attempt < max_attempts

\* What the exhausted retry loop raises.
DominoExhaustedError ==
    [kind |-> "RelayExhausted", from |-> address(current_wallet),
     to |-> address(path[i + 1]), attempts |-> max_attempts]

\* A loop over the path that leaves out the last hop.
DominoAfterSettle_SkipLast(hop) == IF hop + 2 < Len(path) THEN "d_enter" ELSE "done"

\* Where the loop over the path goes after the settle sleep of hop `hop`.
DominoAfterSettle(hop) == IF hop + 1 < Len(path) THEN "d_enter" ELSE "done"

\* The next session opened right after the with block, without the sleep.
DominoAfterHop_NoSettle == "d_enter"

\* Where the code is after a hop's with block ended without an exception:
\* current_wallet = next_wallet, then the settle sleep.
DominoAfterHop == "d_settle"

\* Every hop sends to the first wallet of the path.
next_wallet_First == path[1]

next_wallet == path[i + 1]

\* A retry loop that also swallows what is not a TransactionException.
DominoAfterSendError_Retry == "d_send"

\* Where the code is after wallet.send raised something the except clause
\* of the retry loop does not name: out of the with block.
DominoAfterSendError == "d_exit"

DominoStart ==
    /\ pc = "ready" /\ mixer = "domino"
    /\ \E a \in Amounts, m \in AttemptCounts : amount' = a /\ max_attempts' = m
    /\ path' = chain \o <<to_wallet>>
    /\ current_wallet' = from_wallet
    /\ i' = 0
    /\ pc' = "d_enter"
    /\ minutes' = DominoApproxMinutes
    /\ UNCHANGED <<generateVars, caller_list, chain, mixer, attempt, transferFee, balance,
                   transfer_amount, sent, browser, exc, tries, log>>

DominoEnter ==
    /\ pc = "d_enter"
    /\ tries' = 0
    /\ \/ /\ AEnterOk(current_wallet)
          /\ log' = Append(log, Ev("open", "domino", i, current_wallet, next_wallet, TRUE))
          /\ pc' = "d_fee"
          /\ exc' = exc
       \/ /\ AEnterFails(current_wallet)
          /\ log' = Append(log, Ev("open", "domino", i, current_wallet, next_wallet, FALSE))
          /\ exc' = Raised("SessionError")
          /\ pc' = "failed"
    /\ UNCHANGED <<generateVars, caller_list, minutes, chain, mixer, amount, max_attempts, path, current_wallet,
                   i, attempt, transferFee, balance, transfer_amount, sent>>

DominoGetFee ==
    /\ pc = "d_fee"
    /\ \/ /\ transferFee' \in FeeResults
          /\ pc' = "d_balance"
          /\ exc' = exc
       \/ /\ exc' = Raised("SessionError")
          /\ pc' = "d_exit"
          /\ transferFee' = transferFee
    /\ UNCHANGED <<generateVars, caller_list, minutes, chain, mixer, amount, max_attempts, path, current_wallet,
                   i, attempt, balance, transfer_amount, sent, browser, tries, log>>

DominoGetBalance ==
    /\ pc = "d_balance"
    /\ \/ /\ balance' \in BalanceResults
          /\ pc' = "d_preflight"
          /\ exc' = exc
       \/ /\ exc' = Raised("SessionError")
          /\ pc' = "d_exit"
          /\ balance' = balance
    /\ UNCHANGED <<generateVars, caller_list, minutes, chain, mixer, amount, max_attempts, path, current_wallet,
                   i, attempt, transferFee, transfer_amount, sent, browser, tries, log>>

DominoPreflight ==
    /\ pc = "d_preflight"
    /\ IF ~(IsNumber(transferFee) /\ IsNumber(balance))
       THEN /\ exc' = Raised("TypeError")
            /\ pc' = "d_exit"
            /\ attempt' = attempt
            /\ log' = Append(log, Ev("preflight", "domino", i, current_wallet, next_wallet, FALSE))
       ELSE IF Value(balance) < DominoRequired(Value(transferFee), i)
       THEN /\ exc' = Raised("InsufficientFunds")
            /\ pc' = "d_exit"
            /\ attempt' = attempt
            /\ log' = Append(log, Ev("preflight", "domino", i, current_wallet, next_wallet, FALSE))
       ELSE /\ exc' = exc
            /\ attempt' = 0
            /\ pc' = "d_send"
            /\ log' = Append(log, Ev("preflight", "domino", i, current_wallet, next_wallet, TRUE))
    /\ UNCHANGED <<generateVars, caller_list, minutes, chain, mixer, amount, max_attempts, path, current_wallet,
                   i, transferFee, balance, transfer_amount, sent, browser, tries>>

\* One turn of the retry loop: on success the print of line 55, on a
\* TransactionException the print of line 51 and the sleep.
DominoSend ==
    /\ pc = "d_send"
    /\ DominoMoreAttempts
    /\ sent' = <<Whole(amount), address(next_wallet), "low">>
    /\ tries' = tries + 1
    /\ \E outcome \in SendOutcomes :
         CASE outcome = "ok" ->
                /\ log' = log \o <<Ev("send", "domino", i, current_wallet, next_wallet, TRUE),
                                   Ev("transferred", "domino", i, current_wallet, next_wallet, TRUE)>>
                /\ pc' = "d_exit"
                /\ UNCHANGED <<attempt, exc>>
           [] outcome = "TransactionException" ->
                /\ log' = Append(log, Ev("send", "domino", i, current_wallet, next_wallet, FALSE))
                /\ attempt' = attempt + 1
                /\ UNCHANGED <<pc, exc>>
           [] outcome = "SessionError" ->
                /\ log' = Append(log, Ev("send", "domino", i, current_wallet, next_wallet, FALSE))
                /\ exc' = Raised("SessionError")
                /\ pc' = DominoAfterSendError
                /\ UNCHANGED attempt
    /\ UNCHANGED <<generateVars, caller_list, minutes, chain, mixer, amount, max_attempts, path, current_wallet,
                   i, transferFee, balance, transfer_amount, browser>>

\* The else branch of the retry loop: every attempt was used up.
DominoExhausted ==
    /\ pc = "d_send"
    /\ ~DominoMoreAttempts
    /\ exc' = DominoExhaustedError
    /\ log' = Append(log, Ev("exhausted", "domino", i, current_wallet, next_wallet, FALSE))
    /\ pc' = "d_exit"
    /\ UNCHANGED <<generateVars, caller_list, minutes, chain, mixer, amount, max_attempts, path, current_wallet,
                   i, attempt, transferFee, balance, transfer_amount, sent, browser, tries>>

\* Leaving `async with current_wallet`: __aexit__, then either the exception
\* goes on to the caller or current_wallet moves on.
DominoExit ==
    /\ pc = "d_exit"
    /\ AExit(current_wallet)
    /\ log' = Append(log, Ev("close", "domino", i, current_wallet, next_wallet, TRUE))
    /\ IF exc.kind # "none"
       THEN pc' = "failed" /\ current_wallet' = current_wallet
       ELSE pc' = DominoAfterHop /\ current_wallet' = next_wallet
    /\ BlockLocalsDead
    /\ UNCHANGED <<generateVars, caller_list, minutes, chain, mixer, amount, max_attempts, path, i, attempt,
                   exc, tries>>

\* asyncio.sleep(60 * TRANSFER_APPROX_MINS), then the next turn of the loop.
DominoSettle ==
    /\ pc = "d_settle"
    /\ log' = Append(log, Ev("settle", "domino", i, current_wallet, current_wallet, TRUE))
    /\ i' = i + 1
    /\ pc' = DominoAfterSettle(i)
    /\ UNCHANGED <<generateVars, caller_list, minutes, chain, mixer, amount, max_attempts, path, current_wallet,
                   attempt, transferFee, balance, transfer_amount, sent, browser, exc, tries>>

\* ----------------------------------------------------------- LeafwayMixer
\* One leg per middleman instead of two.
LeafwayTransfersN_OneLeg == Len(chain)

LeafwayTransfersN == Len(chain) * 2
\* The settle window for every middleman, as in DominoMixer.
LeafwayApproxMinutes_SettleEach == TRANSFER_APPROX_MINS + Len(chain) * TRANSFER_APPROX_MINS

LeafwayApproxMinutes == TRANSFER_APPROX_MINS + Len(chain) * 15

\* The right-hand side of the fan-out preflight comparison.
LeafwayRequired(fee) == amount + fee * LeafwayTransfersN

\* Floor division instead of true division.
SplitAmount_Floor == Whole(amount \div Len(chain))

\* transfer_amount = amount / len(middlemen); only asked for a non-empty list.
SplitAmount == Div(amount, Len(chain))

\* The whole balance, the fee not taken off.
SweepAmount_NoFee == Value(balance)

\* transfer_amount = balance - transferFee, of two numbers.
SweepAmount == Value(balance) - Value(transferFee)

\* if transfer_amount > 0
SweepWorthwhile == SweepAmount > 0

\* A fan-out loop that leaves out the last middleman.
LeafwayFanOutContinues_SkipLast(leg) == leg + 2 < Len(chain)

\* for middleman in self._chain.middlemen: is there another middleman after
\* leg `leg`?
LeafwayFanOutContinues(leg) == leg + 1 < Len(chain)

\* A fan-in loop that leaves out the last middleman.
LeafwayFanInContinues_SkipLast(leg) == leg + 2 < Len(chain)

\* for middleman in self._chain.middlemen (fan-in): is there another
\* middleman after leg `leg`?
LeafwayFanInContinues(leg) == leg + 1 < Len(chain)

middleman == chain[i + 1]

LeafwayStart ==
    /\ pc = "ready" /\ mixer = "leafway"
    /\ \E a \in Amounts, m \in AttemptCounts : amount' = a /\ max_attempts' = m
    /\ current_wallet' = from_wallet
    /\ i' = 0
    /\ pc' = "l_enter"
    /\ minutes' = LeafwayApproxMinutes
    /\ UNCHANGED <<generateVars, caller_list, chain, mixer, path, attempt, transferFee, balance,
                   transfer_amount, sent, browser, exc, tries, log>>

LeafwayEnter ==
    /\ pc = "l_enter"
    /\ tries' = 0
    /\ \/ /\ AEnterOk(from_wallet)
          /\ log' = Append(log, Ev("open", "out", 0, from_wallet, from_wallet, TRUE))
          /\ pc' = "l_fee"
          /\ exc' = exc
       \/ /\ AEnterFails(from_wallet)
          /\ log' = Append(log, Ev("open", "out", 0, from_wallet, from_wallet, FALSE))
          /\ exc' = Raised("SessionError")
          /\ pc' = "failed"
    /\ UNCHANGED <<generateVars, caller_list, minutes, chain, mixer, amount, max_attempts, path, current_wallet,
                   i, attempt, transferFee, balance, transfer_amount, sent>>

LeafwayGetFee ==
    /\ pc = "l_fee"
    /\ \/ /\ transferFee' \in FeeResults
          /\ pc' = "l_balance"
          /\ exc' = exc
       \/ /\ exc' = Raised("SessionError")
          /\ pc' = "l_exit"
          /\ transferFee' = transferFee
    /\ UNCHANGED <<generateVars, caller_list, minutes, chain, mixer, amount, max_attempts, path, current_wallet,
                   i, attempt, balance, transfer_amount, sent, browser, tries, log>>

LeafwayGetBalance ==
    /\ pc = "l_balance"
    /\ \/ /\ balance' \in BalanceResults
          /\ pc' = "l_preflight"
          /\ exc' = exc
       \/ /\ exc' = Raised("SessionError")
          /\ pc' = "l_exit"
          /\ balance' = balance
    /\ UNCHANGED <<generateVars, caller_list, minutes, chain, mixer, amount, max_attempts, path, current_wallet,
                   i, attempt, transferFee, transfer_amount, sent, browser, tries, log>>

LeafwayPreflight ==
    /\ pc = "l_preflight"
    /\ IF ~(IsNumber(transferFee) /\ IsNumber(balance))
       THEN /\ exc' = Raised("TypeError")
            /\ pc' = "l_exit"
            /\ log' = Append(log, Ev("preflight", "out", 0, from_wallet, from_wallet, FALSE))
       ELSE IF Value(balance) < LeafwayRequired(Value(transferFee))
       THEN /\ exc' = Raised("InsufficientFunds")
            /\ pc' = "l_exit"
            /\ log' = Append(log, Ev("preflight", "out", 0, from_wallet, from_wallet, FALSE))
       ELSE /\ exc' = exc
            /\ pc' = "l_split"
            /\ log' = Append(log, Ev("preflight", "out", 0, from_wallet, from_wallet, TRUE))
    /\ UNCHANGED <<generateVars, caller_list, minutes, chain, mixer, amount, max_attempts, path, current_wallet,
                   i, attempt, transferFee, balance, transfer_amount, sent, browser, tries>>

\* transfer_amount = amount / len(self._chain.middlemen), then into the loop.
LeafwaySplit ==
    /\ pc = "l_split"
    /\ IF Len(chain) = 0
       THEN /\ exc' = Raised("ZeroDivisionError")
            /\ pc' = "l_exit"
            /\ UNCHANGED <<transfer_amount, i, attempt>>
       ELSE /\ transfer_amount' = SplitAmount
            /\ i' = 0
            /\ attempt' = 0
            /\ pc' = "l_out_send"
            /\ exc' = exc
    /\ UNCHANGED <<generateVars, caller_list, minutes, chain, mixer, amount, max_attempts, path, current_wallet,
                   transferFee, balance, sent, browser, tries, log>>

\* One turn of the fan-out retry loop.  The loop has no else branch: when the
\* attempts are used up the code goes on to the line after the loop.
LeafwayFanOutSend ==
    /\ pc = "l_out_send"
    /\ sent' = <<transfer_amount, address(middleman), "low">>
    /\ tries' = tries + 1
    /\ \E outcome \in SendOutcomes :
         CASE outcome = "ok" ->
                /\ log' = Append(log, Ev("send", "out", i, from_wallet, middleman, TRUE))
                /\ pc' = "l_out_next"
                /\ UNCHANGED <<attempt, exc>>
           [] outcome = "TransactionException" ->
                /\ attempt' = attempt + 1
                /\ IF attempt + 1 < max_attempts
                   THEN pc' = "l_out_send" /\ log' = log
                   ELSE /\ pc' = "l_out_next"
                        /\ log' = Append(log, Ev("exhausted", "out", i, from_wallet, middleman, FALSE))
                /\ exc' = exc
           [] outcome = "SessionError" ->
                /\ exc' = Raised("SessionError")
                /\ pc' = "l_exit"
                /\ UNCHANGED <<attempt, log>>
    /\ UNCHANGED <<generateVars, caller_list, minutes, chain, mixer, amount, max_attempts, path, current_wallet,
                   i, transferFee, balance, transfer_amount, browser>>

\* print("Transferred from main[..] to middleman[..]"), the jitter sleep, and
\* the next middleman.
LeafwayFanOutNext ==
    /\ pc = "l_out_next"
    /\ log' = Append(log, Ev("transferred", "out", i, from_wallet, middleman, TRUE))
    /\ i' = i + 1
    /\ attempt' = 0
    /\ tries' = 0
    /\ pc' = IF LeafwayFanOutContinues(i) THEN "l_out_send" ELSE "l_exit"
    /\ UNCHANGED <<generateVars, caller_list, minutes, chain, mixer, amount, max_attempts, path, current_wallet,
                   transferFee, balance, transfer_amount, sent, browser, exc>>

\* Leaving `async with self._chain.from_wallet`.
LeafwayExit ==
    /\ pc = "l_exit"
    /\ AExit(from_wallet)
    /\ log' = Append(log, Ev("close", "out", 0, from_wallet, from_wallet, TRUE))
    /\ pc' = IF exc.kind # "none" THEN "failed" ELSE "l_settle"
    /\ BlockLocalsDead
    /\ UNCHANGED <<generateVars, caller_list, minutes, chain, mixer, amount, max_attempts, path, current_wallet,
                   i, attempt, exc, tries>>

\* asyncio.sleep(TRANSFER_APPROX_MINS * 60), then the fan-in loop.
LeafwaySettle ==
    /\ pc = "l_settle"
    /\ log' = Append(log, Ev("settle", "out", 0, from_wallet, from_wallet, TRUE))
    /\ i' = 0
    /\ pc' = IF 0 < Len(chain) THEN "l_in_enter" ELSE "done"
    /\ UNCHANGED <<generateVars, caller_list, minutes, chain, mixer, amount, max_attempts, path, current_wallet,
                   attempt, transferFee, balance, transfer_amount, sent, browser, exc, tries>>

LeafwayInEnter ==
    /\ pc = "l_in_enter"
    /\ current_wallet' = middleman
    /\ tries' = 0
    /\ \/ /\ AEnterOk(middleman)
          /\ log' = Append(log, Ev("open", "in", i, middleman, to_wallet, TRUE))
          /\ pc' = "l_in_fee"
          /\ exc' = exc
       \/ /\ AEnterFails(middleman)
          /\ log' = Append(log, Ev("open", "in", i, middleman, to_wallet, FALSE))
          /\ exc' = Raised("SessionError")
          /\ pc' = "failed"
    /\ UNCHANGED <<generateVars, caller_list, minutes, chain, mixer, amount, max_attempts, path,
                   i, attempt, transferFee, balance, transfer_amount, sent>>

LeafwayInGetFee ==
    /\ pc = "l_in_fee"
    /\ \/ /\ transferFee' \in FeeResults
          /\ pc' = "l_in_balance"
          /\ exc' = exc
       \/ /\ exc' = Raised("SessionError")
          /\ pc' = "l_in_exit"
          /\ transferFee' = transferFee
    /\ UNCHANGED <<generateVars, caller_list, minutes, chain, mixer, amount, max_attempts, path, current_wallet,
                   i, attempt, balance, transfer_amount, sent, browser, tries, log>>

LeafwayInGetBalance ==
    /\ pc = "l_in_balance"
    /\ \/ /\ balance' \in BalanceResults
          /\ pc' = "l_in_check"
          /\ exc' = exc
       \/ /\ exc' = Raised("SessionError")
          /\ pc' = "l_in_exit"
          /\ balance' = balance
    /\ UNCHANGED <<generateVars, caller_list, minutes, chain, mixer, amount, max_attempts, path, current_wallet,
                   i, attempt, transferFee, transfer_amount, sent, browser, tries, log>>

\* transfer_amount = balance - transferFee; if transfer_amount > 0: print
\* "Transferred from middleman[..] to target[..]" and send, else print
\* "Middleman[..]'s balance is 0."
LeafwayInCheck ==
    /\ pc = "l_in_check"
    /\ IF ~(IsNumber(transferFee) /\ IsNumber(balance))
       THEN /\ exc' = Raised("TypeError")
            /\ pc' = "l_in_exit"
            /\ log' = Append(log, Ev("check", "in", i, middleman, to_wallet, FALSE))
            /\ UNCHANGED <<transfer_amount, attempt>>
       ELSE IF SweepWorthwhile
       THEN /\ transfer_amount' = Whole(SweepAmount)
            /\ log' = log \o <<Ev("check", "in", i, middleman, to_wallet, TRUE),
                               Ev("transferred", "in", i, middleman, to_wallet, TRUE)>>
            /\ attempt' = 0
            /\ pc' = "l_in_send"
            /\ exc' = exc
       ELSE /\ transfer_amount' = Whole(SweepAmount)
            /\ log' = log \o <<Ev("check", "in", i, middleman, to_wallet, FALSE),
                               Ev("skip", "in", i, middleman, to_wallet, TRUE)>>
            /\ pc' = "l_in_exit"
            /\ UNCHANGED <<attempt, exc>>
    /\ UNCHANGED <<generateVars, caller_list, minutes, chain, mixer, amount, max_attempts, path, current_wallet,
                   i, transferFee, balance, sent, browser, tries>>

\* One turn of the fan-in retry loop (no else branch either); after the loop
\* the jitter sleep.
LeafwayInSend ==
    /\ pc = "l_in_send"
    /\ sent' = <<transfer_amount, address(to_wallet), "low">>
    /\ tries' = tries + 1
    /\ \E outcome \in SendOutcomes :
         CASE outcome = "ok" ->
                /\ log' = Append(log, Ev("send", "in", i, middleman, to_wallet, TRUE))
                /\ pc' = "l_in_exit"
                /\ UNCHANGED <<attempt, exc>>
           [] outcome = "TransactionException" ->
                /\ attempt' = attempt + 1
                /\ IF attempt + 1 < max_attempts
                   THEN pc' = "l_in_send" /\ log' = log
                   ELSE /\ pc' = "l_in_exit"
                        /\ log' = Append(log, Ev("exhausted", "in", i, middleman, to_wallet, FALSE))
                /\ exc' = exc
           [] outcome = "SessionError" ->
                /\ exc' = Raised("SessionError")
                /\ pc' = "l_in_exit"
                /\ UNCHANGED <<attempt, log>>
    /\ UNCHANGED <<generateVars, caller_list, minutes, chain, mixer, amount, max_attempts, path, current_wallet,
                   i, transferFee, balance, transfer_amount, browser>>

\* Leaving `async with middleman`, then the next middleman.
LeafwayInExit ==
    /\ pc = "l_in_exit"
    /\ AExit(middleman)
    /\ log' = Append(log, Ev("close", "in", i, middleman, to_wallet, TRUE))
    /\ IF exc.kind # "none"
       THEN pc' = "failed" /\ i' = i
       ELSE /\ i' = i + 1
            /\ pc' = IF LeafwayFanInContinues(i) THEN "l_in_enter" ELSE "done"
    /\ BlockLocalsDead
    /\ UNCHANGED <<generateVars, caller_list, minutes, chain, mixer, amount, max_attempts, path, current_wallet,
                   attempt, exc, tries>>

\* ------------------------------------------------ Wallet.generateBulk
\* The tasks generateBulk creates; a direct call of _generateWalletWithRetry
\* runs as task 1.
Tasks == 1..MaxTotal
Header == "# Mnemonic | Address | secretViewKey | secretSpendKey"

\* The wallet task t generates at its attempt a, and its line in the file.
NewWallet(t, a) == <<t, a>>
WalletLine(w) == [wallet |-> w]

\* A semaphore that lets every task in.
SemaphoreFree_Always == TRUE

\* asyncio.Semaphore: acquire() goes through while a permit is left.
SemaphoreFree == semaphore > 0

\* asyncio.Lock: acquire() goes through while nobody holds the lock.
LockFree == file_lock = 0

\* for attempt in range(max_retries): the next turn, or, the loop being
\* over, raise RuntimeError.
RetryNext(a) == IF a < max_retries THEN "new_page" ELSE "raised"

\* generateBulk up to `await asyncio.gather(*tasks)`: the semaphore, the
\* list, the lock, the header line, the browser context, one task per wallet.
GenerateBulk ==
    /\ call = "none" /\ pc = "new"
    /\ \E w \in 0..MaxWorkers, n \in 0..MaxTotal :
          /\ max_workers' = w
          /\ total' = n
          /\ semaphore' = w
          /\ task' = [t \in Tasks |->
                        IF t <= n THEN [pc |-> "wait", attempt |-> 0, wallet |-> <<>>]
                        ELSE task[t]]
    /\ max_retries' = DEFAULT_MAX_RETRIES
    /\ file_lock' = 0
    /\ wallets' = <<>>
    /\ outfp' = <<Header>>
    /\ call' = "gather"
    /\ UNCHANGED <<mixerVars, pages>>

\* worker(): async with semaphore, then into _generateWalletWithRetry.  The
\* RuntimeError of an empty retry loop leaves the with block at once.
WorkerEnter(t) ==
    /\ task[t].pc = "wait"
    /\ SemaphoreFree
    /\ task' = [task EXCEPT ![t].pc = RetryNext(0), ![t].attempt = 0]
    /\ semaphore' = IF RetryNext(0) = "raised" THEN semaphore ELSE semaphore - 1
    /\ UNCHANGED <<mixerVars, call, max_workers, total, max_retries, file_lock, wallets,
                   outfp, pages>>

\* _generateWalletWithRetry called on its own.
RetryCall ==
    /\ call = "none" /\ pc = "new"
    /\ \E r \in 0..MaxRetries :
          /\ max_retries' = r
          /\ task' = [task EXCEPT ![1].pc = IF 0 < r THEN "new_page" ELSE "raised",
                                   ![1].attempt = 0]
    /\ call' = "direct"
    /\ UNCHANGED <<mixerVars, max_workers, total, semaphore, file_lock, wallets, outfp, pages>>

\* page = await context.new_page()
NewPage(t) ==
    /\ task[t].pc = "new_page"
    /\ pages' = pages + 1
    /\ task' = [task EXCEPT ![t].pc = "generating"]
    /\ UNCHANGED <<mixerVars, call, max_workers, total, max_retries, semaphore, file_lock,
                   wallets, outfp>>

\* wallet = await Wallet.generateNew(page) returns: page.close(), return
\* wallet; in a worker, wallets.append(wallet) and on to the file lock.
GenerateNewReturns(t) ==
    /\ task[t].pc = "generating"
    /\ pages' = pages - 1
    /\ IF call = "direct"
       THEN /\ task' = [task EXCEPT ![t].pc = "returned",
                                     ![t].wallet = NewWallet(t, task[t].attempt)]
            /\ wallets' = wallets
       ELSE /\ task' = [task EXCEPT ![t].pc = "lock",
                                     ![t].wallet = NewWallet(t, task[t].attempt)]
            /\ wallets' = Append(wallets, NewWallet(t, task[t].attempt))
    /\ UNCHANGED <<mixerVars, call, max_workers, total, max_retries, semaphore, file_lock,
                   outfp>>

\* Wallet.generateNew(page) raises: except Exception, print, sleep, the next
\* turn of the loop; page.close() was not reached.  When the loop is over,
\* RuntimeError, which in a worker leaves `async with semaphore`.
GenerateNewRaises(t) ==
    /\ task[t].pc = "generating"
    /\ task' = [task EXCEPT ![t].pc = RetryNext(task[t].attempt + 1),
                            ![t].attempt = task[t].attempt + 1]
    /\ semaphore' = IF call # "direct" /\ RetryNext(task[t].attempt + 1) = "raised"
                    THEN semaphore + 1 ELSE semaphore
    /\ UNCHANGED <<mixerVars, call, max_workers, total, max_retries, file_lock, wallets,
                   outfp, pages>>

\* async with file_lock
LockEnter(t) ==
    /\ task[t].pc = "lock"
    /\ LockFree
    /\ file_lock' = t
    /\ task' = [task EXCEPT ![t].pc = "write"]
    /\ UNCHANGED <<mixerVars, call, max_workers, total, max_retries, semaphore, wallets,
                   outfp, pages>>

\* open(outfp, "a"), f.write(line), and out of both with blocks.
WriteLine(t) ==
    /\ task[t].pc = "write"
    /\ outfp' = Append(outfp, WalletLine(task[t].wallet))
    /\ file_lock' = 0
    /\ semaphore' = semaphore + 1
    /\ task' = [task EXCEPT ![t].pc = "done"]
    /\ UNCHANGED <<mixerVars, call, max_workers, total, max_retries, wallets, pages>>

\* asyncio.gather returns when every task is done: b.close() (and with it
\* every page of the context), p.stop(), return wallets.
GatherReturns ==
    /\ call = "gather"
    /\ \A t \in 1..total : task[t].pc = "done"
    /\ pages' = 0
    /\ call' = "returned"
    /\ UNCHANGED <<mixerVars, max_workers, total, max_retries, semaphore, file_lock, wallets,
                   outfp, task>>

\* asyncio.gather raises the RuntimeError of a task; the other tasks go on.
GatherRaises ==
    /\ call = "gather"
    /\ \E t \in 1..total : task[t].pc = "raised"
    /\ call' = "raised"
    /\ UNCHANGED <<mixerVars, max_workers, total, max_retries, semaphore, file_lock, wallets,
                   outfp, pages, task>>

\* The caller reads mixer.approxMinutes of the constructed mixer.
ApproxMinutes ==
    /\ pc = "ready"
    /\ minutes' = IF mixer = "domino" THEN DominoApproxMinutes ELSE LeafwayApproxMinutes
    /\ UNCHANGED <<generateVars, caller_list, chain, mixer, pc, amount, max_attempts, path, current_wallet,
                   i, attempt, transferFee, balance, transfer_amount, sent, browser, exc,
                   tries, log>>

\* ------------------------------------------------------- specifications
Next ==
    \/ \E kind \in {"domino", "leafway"} : Construct(kind)
    \/ ApproxMinutes
    \/ DominoStart
    \/ DominoEnter
    \/ DominoGetFee
    \/ DominoGetBalance
    \/ DominoPreflight
    \/ DominoSend
    \/ DominoExhausted
    \/ DominoExit
    \/ DominoSettle
    \/ LeafwayStart
    \/ LeafwayEnter
    \/ LeafwayGetFee
    \/ LeafwayGetBalance
    \/ LeafwayPreflight
    \/ LeafwaySplit
    \/ LeafwayFanOutSend
    \/ LeafwayFanOutNext
    \/ LeafwayExit
    \/ LeafwaySettle
    \/ LeafwayInEnter
    \/ LeafwayInGetFee
    \/ LeafwayInGetBalance
    \/ LeafwayInCheck
    \/ LeafwayInSend
    \/ LeafwayInExit

Spec == Init /\ [][Next]_vars

\* The runs of a LeafwayMixer alone.
NextLeafway ==
    \/ Construct("leafway")
    \/ ApproxMinutes
    \/ LeafwayStart
    \/ LeafwayEnter
    \/ LeafwayGetFee
    \/ LeafwayGetBalance
    \/ LeafwayPreflight
    \/ LeafwaySplit
    \/ LeafwayFanOutSend
    \/ LeafwayFanOutNext
    \/ LeafwayExit
    \/ LeafwaySettle
    \/ LeafwayInEnter
    \/ LeafwayInGetFee
    \/ LeafwayInGetBalance
    \/ LeafwayInCheck
    \/ LeafwayInSend
    \/ LeafwayInExit

SpecLeafway == Init /\ [][NextLeafway]_vars

\* Wallet generation: one call of generateBulk, or one of
\* _generateWalletWithRetry.
InitGenerate == Init /\ caller_list = <<>>

NextGenerate ==
    \/ GenerateBulk
    \/ RetryCall
    \/ \E t \in Tasks : WorkerEnter(t)
    \/ \E t \in Tasks : NewPage(t)
    \/ \E t \in Tasks : GenerateNewReturns(t)
    \/ \E t \in Tasks : GenerateNewRaises(t)
    \/ \E t \in Tasks : LockEnter(t)
    \/ \E t \in Tasks : WriteLine(t)
    \/ GatherReturns
    \/ GatherRaises

SpecGenerate == InitGenerate /\ [][NextGenerate]_vars

\* The same engine when the caller builds two mixers on one WalletChain.
NextShared == Next \/ ConstructAgain

SpecShared == Init /\ [][NextShared]_vars

\* ================================================================ claims
TotalHops == 1 + Len(chain)
Last(q) == q[Len(q)]
PreflightCount == Cardinality({p \in DOMAIN log : log[p].ev = "preflight"})
SendCalled(e) == e.ev = "send"
LoopEnded(e) == e.ev = "exhausted" \/ (e.ev = "send" /\ e.ok)
SendCount == Cardinality({p \in DOMAIN log : SendCalled(log[p])})

\* The fee and the balance of hop i are both read and the comparison of
\* DominoMixer.start has been made on them.
DominoPreflightRan ==
    /\ mixer = "domino"
    /\ pc \in {"d_send", "d_exit"}
    /\ IsNumber(transferFee) /\ IsNumber(balance)

\* C1: at every hop i of DominoMixer.start, when the balance read at that hop
\* is less than amount + fee * (total_hops - i), with the fee read at that hop,
\* the run fails with the insufficient-funds error, no send has been called at
\* that hop, and nothing of a later hop ever happens.
C1_DominoPreflight ==
    /\ (DominoPreflightRan
        /\ Value(balance) < amount + Value(transferFee) * (TotalHops - i))
       => /\ exc.kind = "InsufficientFunds"
          /\ pc = "d_exit"
          /\ tries = 0
    /\ (mixer = "domino" /\ exc.kind = "InsufficientFunds")
       => /\ pc \in {"d_exit", "failed"}
          /\ tries = 0
          /\ \A p \in DOMAIN log :
                /\ log[p].hop <= i
                /\ ~(log[p].hop = i /\ (SendCalled(log[p]) \/ LoopEnded(log[p])))

\* C1 witness: the second hop of a three-hop path finds a balance that covers
\* the amount and one fee, but not the fees of the two hops left.
C1_Witness ==
    /\ mixer = "domino" /\ pc = "d_exit" /\ exc.kind = "InsufficientFunds"
    /\ i = 1 /\ TotalHops = 3
    /\ Value(transferFee) > 0
    /\ Value(balance) >= amount + Value(transferFee)

\* C2: when every send of a hop raises TransactionException, exactly
\* max_attempts sends are made at that hop, then the run fails with the
\* exhaustion error naming the hop's source and destination address, and
\* nothing of a later hop ever happens.
C2_DominoExhaustion ==
    mixer = "domino" =>
       /\ pc = "d_send"
          => /\ tries = attempt /\ tries <= max_attempts
             /\ tries = Cardinality({p \in DOMAIN log : SendCalled(log[p]) /\ log[p].hop = i})
       /\ (pc = "d_send" /\ tries = max_attempts)
          => ENABLED DominoExhausted /\ ~ENABLED DominoSend
       /\ (\E p \in DOMAIN log : log[p].ev = "exhausted") => exc.kind = "RelayExhausted"
       /\ exc.kind = "RelayExhausted"
          => /\ tries = max_attempts
             /\ Cardinality({p \in DOMAIN log : SendCalled(log[p]) /\ log[p].hop = i}) = max_attempts
             /\ exc.attempts = max_attempts
             /\ exc.from = address(IF i = 0 THEN from_wallet ELSE path[i])
             /\ exc.to = address(path[i + 1])
             /\ pc \in {"d_exit", "failed"}
             /\ \A p \in DOMAIN log : log[p].hop <= i

\* C2 witness: the second hop used up MaxAttempts attempts and the run failed.
C2_Witness ==
    /\ mixer = "domino" /\ pc = "failed" /\ exc.kind = "RelayExhausted"
    /\ i = 1 /\ max_attempts = MaxAttempts /\ tries = MaxAttempts

\* C3 as the specification states it: a run that ended, in success or with one
\* of the two failures of the engine, made exactly h preflight checks and at
\* most h * max_attempts sends.
C3_Original ==
    (/\ mixer = "domino"
     /\ \/ pc = "done"
        \/ pc = "failed" /\ exc.kind \in {"InsufficientFunds", "RelayExhausted"})
    => /\ PreflightCount = TotalHops
       /\ SendCount <= TotalHops * max_attempts

\* C3 as amended: a run of DominoMixer.start makes at most h preflight checks
\* and at most h * max_attempts sends; exactly h checks when it ends in
\* success, exactly i + 1 when it fails at hop i with the insufficient-funds
\* or the exhaustion error.
C3_DominoCounts ==
    mixer = "domino" =>
       /\ PreflightCount <= TotalHops
       /\ SendCount <= TotalHops * max_attempts
       /\ SendCount <= PreflightCount * max_attempts
       /\ pc = "done" => PreflightCount = TotalHops
       /\ exc.kind \in {"InsufficientFunds", "RelayExhausted"} => PreflightCount = i + 1

\* C3 witness: a three-hop run ended in success after at least one retry.
C3_Witness ==
    /\ mixer = "domino" /\ pc = "done"
    /\ TotalHops = 3 /\ PreflightCount = 3
    /\ SendCount > TotalHops

\* C4: in every run of DominoMixer.start, nothing of hop i+1 (opening its
\* session, its preflight, its send) happens before the send of hop i was
\* accepted and the settle sleep that follows it is over.
C4_DominoOrdering ==
    mixer = "domino" =>
       /\ \A p \in DOMAIN log :
             (log[p].ev = "open" /\ \E o \in 1..(p - 1) : log[o].ev = "open")
             => \E q, r \in 1..(p - 1) :
                   /\ q < r
                   /\ log[q].ev = "send" /\ log[q].ok /\ log[q].hop + 1 = log[p].hop
                   /\ log[r].ev = "settle" /\ log[r].hop + 1 = log[p].hop
                   /\ \A o \in q..(p - 1) : log[o].ev # "open"
       /\ \A p \in DOMAIN log :
             (log[p].ev = "preflight" \/ SendCalled(log[p]) \/ LoopEnded(log[p]))
             => \E o \in 1..(p - 1) :
                   /\ log[o].ev = "open" /\ log[o].ok /\ log[o].hop = log[p].hop
                   /\ \A r \in o..p : log[r].ev # "settle"
       /\ (pc \in {"d_enter", "d_fee", "d_balance", "d_preflight", "d_send"} /\ i >= 1)
          => /\ \E q \in DOMAIN log : log[q].ev = "send" /\ log[q].ok /\ log[q].hop = i - 1
             /\ \E r \in DOMAIN log : log[r].ev = "settle" /\ log[r].hop = i - 1

\* C4 witness: the session of the third hop is open.
C4_Witness ==
    /\ mixer = "domino"
    /\ \E p \in DOMAIN log : log[p].ev = "open" /\ log[p].ok /\ log[p].hop = 2

FanInPositions == {"l_in_enter", "l_in_fee", "l_in_balance", "l_in_check", "l_in_send", "l_in_exit"}

\* The retry loop of every fan-out leg has ended, and then the settle sleep
\* was made, among the first n entries of the log.
FanOutSettledWithin(n) ==
    \E r \in 1..n :
       /\ log[r].ev = "settle"
       /\ \A j \in 0..(Len(chain) - 1) :
             \E q \in 1..(r - 1) : log[q].ph = "out" /\ log[q].hop = j /\ LoopEnded(log[q])

\* C5: in every run of LeafwayMixer.start no fan-in step begins before the
\* retry loops of all fan-out legs have ended and the one settle sleep that
\* follows them is over.
C5_LeafwayOrdering ==
    mixer = "leafway" =>
       /\ \A p \in DOMAIN log : log[p].ph = "in" => FanOutSettledWithin(p - 1)
       /\ pc \in FanInPositions => FanOutSettledWithin(Len(log))
       /\ Cardinality({r \in DOMAIN log : log[r].ev = "settle"}) <= 1

\* C5 witness: fan-in reached its second middleman after a fan-out in which
\* one leg was accepted and one was exhausted.
C5_Witness ==
    /\ mixer = "leafway" /\ pc = "l_in_fee" /\ i = 1
    /\ \E q \in DOMAIN log : log[q].ph = "out" /\ log[q].ev = "exhausted"
    /\ \E q \in DOMAIN log : log[q].ph = "out" /\ log[q].ev = "send"

\* C6: in LeafwayMixer.start a leg whose send failed max_attempts times in a
\* row ends in the exhaustion error, which names the leg's source and
\* destination address and the attempt count, and the leg is never reported
\* as a transfer that was made.
C6_LeafwayExhaustionReported ==
    mixer = "leafway" =>
       \A p \in DOMAIN log :
          log[p].ev = "exhausted"
          => /\ exc.kind = "RelayExhausted"
             /\ exc.from = address(log[p].from)
             /\ exc.to = address(log[p].to)
             /\ exc.attempts = max_attempts
             /\ ~\E q \in DOMAIN log :
                   /\ log[q].ev = "transferred"
                   /\ log[q].ph = log[p].ph /\ log[q].hop = log[p].hop

\* C7: in both strategies every send to a recipient comes right after a
\* preflight check of its own: between the check and the send no other
\* recipient was sent to.
C7_PreflightBeforeEachSend ==
    \A p \in DOMAIN log :
       LoopEnded(log[p])
       => \E q \in 1..(p - 1) :
             /\ log[q].ev \in {"preflight", "check"} /\ log[q].ok
             /\ \A r \in (q + 1)..(p - 1) : ~LoopEnded(log[r])

\* C8: for every middleman of the fan-in of LeafwayMixer.start: when
\* balance - fee <= 0 no send is made for it and the run goes on without an
\* error; when balance - fee > 0 the amount sent to the destination address is
\* exactly balance - fee.
C8_LeafwaySweep ==
    mixer = "leafway" =>
       /\ pc = "l_in_send"
          => /\ IsNumber(transferFee) /\ IsNumber(balance)
             /\ Value(balance) - Value(transferFee) > 0
             /\ transfer_amount = <<Value(balance) - Value(transferFee), 1>>
       /\ (pc \in {"l_in_send", "l_in_exit"} /\ sent # <<>>)
          => /\ Value(balance) - Value(transferFee) > 0
             /\ sent = <<<<Value(balance) - Value(transferFee), 1>>, address(to_wallet), "low">>
       /\ (/\ pc = "l_in_exit" /\ IsNumber(transferFee) /\ IsNumber(balance)
           /\ Value(balance) - Value(transferFee) <= 0)
          => /\ tries = 0 /\ sent = <<>>
             /\ exc.kind = "none"
             /\ Last(log).ev = "skip"
       /\ \A p \in DOMAIN log :
             log[p].ev = "skip"
             => \/ exc.kind = "none"
                \/ \E q \in (p + 1)..Len(log) : log[q].hop > log[p].hop

\* C8 witness: the first middleman was skipped, the second one has sent its
\* balance less a fee that is not zero.
C8_Witness ==
    /\ mixer = "leafway" /\ pc = "l_in_exit" /\ i = 1
    /\ sent # <<>> /\ Last(log).ev = "send"
    /\ Value(transferFee) > 0
    /\ \E p \in DOMAIN log : log[p].ev = "skip" /\ log[p].hop = 0

\* The fee and the balance of the source are both read and the comparison of
\* LeafwayMixer.start has been made on them.
LeafwayPreflightRan ==
    /\ mixer = "leafway"
    /\ pc \in {"l_split", "l_out_send", "l_out_next", "l_exit"}
    /\ IsNumber(transferFee) /\ IsNumber(balance)

\* C9: LeafwayMixer.start opens one session on the source and makes one
\* preflight check there; when the balance is less than
\* amount + fee * (2 * middlemen_count) the run fails with the
\* insufficient-funds error and no send was called; otherwise the check lets
\* the run through to the fan-out.
C9_LeafwayPreflight ==
    mixer = "leafway" =>
       /\ Cardinality({p \in DOMAIN log : log[p].ev = "open" /\ log[p].ph = "out"}) <= 1
       /\ PreflightCount <= 1
       /\ LeafwayPreflightRan
          => IF Value(balance) < amount + Value(transferFee) * (2 * Len(chain))
             THEN /\ exc.kind = "InsufficientFunds"
                  /\ pc = "l_exit"
                  /\ tries = 0 /\ sent = <<>>
                  /\ \E p \in DOMAIN log : log[p].ev = "preflight" /\ ~log[p].ok
             ELSE /\ exc.kind # "InsufficientFunds"
                  /\ \E p \in DOMAIN log : log[p].ev = "preflight" /\ log[p].ok
       /\ exc.kind = "InsufficientFunds"
          => /\ tries = 0 /\ sent = <<>>
             /\ pc \in {"l_exit", "failed"}
             /\ \A p \in DOMAIN log : log[p].ph = "out" /\ ~LoopEnded(log[p])
       /\ (tries > 0 \/ \E p \in DOMAIN log : LoopEnded(log[p]))
          => \E p \in DOMAIN log : log[p].ev = "preflight" /\ log[p].ok

\* C9 witness: the source balance covers the amount and one fee for each
\* middleman, but not two, and the run fails.
C9_Witness ==
    /\ mixer = "leafway" /\ pc = "l_exit" /\ exc.kind = "InsufficientFunds"
    /\ Len(chain) >= 1
    /\ Value(transferFee) > 0
    /\ Value(balance) >= amount + Value(transferFee) * Len(chain)

\* The entries of the log that end the retry loop of a fan-out leg.
FanOutLegs == {p \in DOMAIN log : log[p].ph = "out" /\ LoopEnded(log[p])}

\* C10: for k >= 1 middlemen every fan-out send of LeafwayMixer.start carries
\* exactly amount / k, the legs go to the middlemen one by one in path order,
\* and k legs of that size add up to amount.
C10_LeafwayEqualSplit ==
    mixer = "leafway" =>
       /\ pc \in {"l_out_send", "l_out_next"}
          => /\ Len(chain) >= 1
             /\ transfer_amount[2] > 0
             /\ transfer_amount[1] * Len(chain) = amount * transfer_amount[2]
       /\ (pc \in {"l_out_send", "l_out_next", "l_exit"} /\ sent # <<>>)
          => /\ sent[1][2] > 0
             /\ Len(chain) * sent[1][1] = amount * sent[1][2]
             /\ sent[3] = "low"
       /\ (sent # <<>> /\ (pc = "l_out_next" \/ (pc = "l_out_send" /\ tries > 0)))
          => sent[2] = address(chain[i + 1])
       /\ \A p \in FanOutLegs :
             /\ log[p].hop = Cardinality({q \in FanOutLegs : q < p})
             /\ log[p].to = chain[log[p].hop + 1]
       /\ (\E r \in DOMAIN log : log[r].ev = "settle") => Cardinality(FanOutLegs) = Len(chain)

\* C10 witness: an amount of 1 was split over two middlemen and both legs
\* were sent.
C10_Witness ==
    /\ mixer = "leafway" /\ pc = "l_exit" /\ exc.kind = "none"
    /\ Len(chain) = 2 /\ amount = 1 /\ i = 2
    /\ sent = <<<<1, 2>>, address(chain[2]), "low">>

\* C11: a run of LeafwayMixer.start, on any constructed path (the empty
\* middlemen list too), in which the session raises nothing and every fee and
\* balance it reads is a number, raises nothing but the insufficient-funds
\* or the exhaustion error.
C11_LeafwayFailureModes ==
    (mixer = "leafway" /\ exc.kind \notin {"none", "SessionError", "TypeError"})
    => exc.kind \in {"InsufficientFunds", "RelayExhausted"}

\* How often wallet w occurs in the list q.
Occurrences(q, w) == Cardinality({j \in 1..Len(q) : q[j] = w})

\* C12: once DominoMixer or LeafwayMixer is constructed, the order it will
\* run in has the length of the caller's list and holds every wallet as often
\* as the caller's list does; the caller's list is still the list that was
\* handed in, in its order.
C12_PathIsPermutation ==
    /\ caller_list = [j \in 1..Len(caller_list) |-> j]
    /\ mixer # "none"
       => /\ Len(chain) = Len(caller_list)
          /\ \A w \in Wallets : Occurrences(chain, w) = Occurrences(caller_list, w)

\* C12 witness: a mixer constructed on the longest list runs in an order that
\* is not the caller's.
C12_Witness ==
    /\ mixer # "none" /\ pc = "ready"
    /\ Len(caller_list) = MaxMiddlemen
    /\ chain # caller_list

\* C13: from the construction of a mixer on, no step changes the order of
\* middlemen that mixer runs in, even when a second mixer is constructed from
\* the same WalletChain object.
C13_PathImmutable == [][mixer # "none" => chain' = chain]_vars

Open == {w \in Wallets : browser[w]}
InDominoBlock == pc \in {"d_fee", "d_balance", "d_preflight", "d_send", "d_exit"}
InFanOutBlock ==
    pc \in {"l_fee", "l_balance", "l_preflight", "l_split", "l_out_send", "l_out_next", "l_exit"}
InFanInBlock == pc \in {"l_in_fee", "l_in_balance", "l_in_check", "l_in_send", "l_in_exit"}

\* C14: at every point of a run of DominoMixer.start or LeafwayMixer.start at
\* most one wallet has a session open, and inside a with block it is the
\* wallet of that block; no session is open when the next one is about to be
\* opened, nor during a settle sleep: by then every session opened before
\* has been closed.
C14_SessionExclusive ==
    /\ Cardinality(Open) <= 1
    /\ InDominoBlock => Open = {current_wallet}
    /\ InFanOutBlock => Open = {from_wallet}
    /\ InFanInBlock => Open = {middleman}
    /\ pc \in {"d_enter", "l_enter", "l_in_enter", "d_settle", "l_settle"} => Open = {}
    /\ \A q \in DOMAIN log :
          log[q].ev \in {"open", "settle"}
          => Cardinality({p \in 1..(q - 1) : log[p].ev = "open" /\ log[p].ok})
                = Cardinality({r \in 1..(q - 1) : log[r].ev = "close"})

\* C14 witness: the session of the second middleman of the fan-in is open,
\* after the source's and the first middleman's.
C14_Witness ==
    /\ mixer = "leafway" /\ pc = "l_in_fee" /\ i = 1
    /\ Open = {chain[2]}

\* C15: when a run has ended, in success or with any failure (a failed
\* preflight, used-up retries, a session that could not be opened), no wallet
\* holds a launched browser.
C15_SessionsReleased == pc \in {"done", "failed"} => Open = {}

InRetryLoop == pc \in {"d_send", "l_out_send", "l_in_send"}

\* C16: in both strategies a retry loop takes another turn only after send
\* raised TransactionException; once send, getBalance or getTransferFee has
\* failed in any other way the code is on its way out of start(): no retry
\* loop is running, no send can be called any more, and the run ends failed.
C16_OnlyTransactionErrorRetried ==
    /\ (InRetryLoop /\ tries > 0) => (exc.kind = "none" /\ attempt = tries)
    /\ exc.kind # "none"
       => /\ pc \in {"d_exit", "l_exit", "l_in_exit", "failed"}
          /\ ~ENABLED DominoSend
          /\ ~ENABLED LeafwayFanOutSend
          /\ ~ENABLED LeafwayInSend
    /\ pc = "failed" => (exc.kind # "none" /\ ~ENABLED Next)

\* C16 witness: at a hop of DominoMixer.start the first send raised
\* TransactionException and was retried, the second one broke the session.
C16_Witness ==
    /\ mixer = "domino" /\ pc = "d_exit" /\ exc.kind = "SessionError"
    /\ attempt = 1 /\ tries = 2

\* The holders of the funds along the route: the source, the middlemen in
\* execution order, the destination.
Holders == <<from_wallet>> \o chain \o <<to_wallet>>
Sends == {p \in DOMAIN log : SendCalled(log[p])}

\* Every session so far was opened, every preflight so far passed, every
\* send so far was accepted, and no session call broke.
DominoSmooth ==
    /\ mixer = "domino"
    /\ exc.kind # "SessionError"
    /\ \A p \in DOMAIN log : log[p].ev \in {"open", "preflight", "send"} => log[p].ok

\* C17: as long as every preflight of DominoMixer.start passes and every send
\* is accepted at its first attempt, no error is raised, the sends made are
\* those of hops 0, 1, ... in path order, each from the holder of the hop to
\* the address of the next holder, each of exactly `amount` at low priority;
\* a run that ends has made exactly k + 1 of them, the last one to the
\* destination.
C17_DominoSuccessPath ==
    DominoSmooth =>
       /\ exc.kind = "none" /\ pc # "failed"
       /\ \A p \in Sends :
             /\ log[p].hop = Cardinality({q \in Sends : q < p})
             /\ log[p].hop <= Len(chain)
             /\ log[p].from = Holders[log[p].hop + 1]
             /\ log[p].to = Holders[log[p].hop + 2]
       /\ (pc = "d_exit" /\ sent # <<>>)
          => /\ sent = <<Whole(amount), address(Holders[i + 2]), "low">>
             /\ Last(log).ev = "transferred" /\ Last(log).hop = i
       /\ pc = "done"
          => /\ Cardinality(Sends) = Len(chain) + 1
             /\ \E p \in Sends : log[p].hop = Len(chain) /\ log[p].to = to_wallet
             /\ Cardinality({p \in DOMAIN log : log[p].ev = "settle"}) = Len(chain) + 1

\* C17 witness: the last hop of a run over the longest path, in an order the
\* shuffle changed, has just sent to the destination.
C17_Witness ==
    /\ DominoSmooth /\ pc = "d_exit" /\ sent # <<>>
    /\ Len(chain) = MaxMiddlemen /\ i = MaxMiddlemen
    /\ chain # caller_list

\* What a step that reads approxMinutes, and does nothing else, leaves as it
\* was: everything but the value read.
AllButMinutes ==
    <<caller_list, chain, mixer, pc, amount, max_attempts, path, current_wallet, i, attempt,
      transferFee, balance, transfer_amount, sent, browser, exc, tries, log, generateVars>>

\* C18: for a path with k middlemen every value read from approxMinutes is
\* (k + 1) * 25 for DominoMixer and 25 + k * 15 for LeafwayMixer, start() has
\* read it by the time it opens the first session, and a read of the
\* property by the caller changes nothing else.
C18_ApproxMinutes ==
    /\ [](/\ (mixer = "domino" /\ minutes # 0) => minutes = (Len(caller_list) + 1) * 25
          /\ (mixer = "leafway" /\ minutes # 0) => minutes = 25 + Len(caller_list) * 15
          /\ pc \notin {"new", "ready"} => minutes # 0)
    /\ [][(pc = "ready" /\ pc' = "ready") => AllButMinutes' = AllButMinutes]_vars

\* C18 witness: the caller has read the estimate of a LeafwayMixer on the
\* longest path and has not called start().
C18_Witness ==
    /\ mixer = "leafway" /\ pc = "ready"
    /\ Len(chain) = MaxMiddlemen
    /\ minutes = 25 + MaxMiddlemen * 15

\* The fan-out preflight passed, and nothing was raised since but
\* TransactionException by send.
LeafwayOnlyTransactionErrors ==
    /\ mixer = "leafway"
    /\ \E p \in DOMAIN log : log[p].ev = "preflight" /\ log[p].ok
    /\ exc.kind \notin {"SessionError", "TypeError", "ZeroDivisionError"}

FanInVisits == {p \in DOMAIN log : log[p].ph = "in" /\ log[p].ev = "open"}
LoopsEnded == Cardinality({p \in DOMAIN log : LoopEnded(log[p])})

\* C19: in a run of LeafwayMixer.start whose preflight passed and in which
\* nothing but TransactionException was raised, no used-up retry loop stops
\* the run: nothing is raised, the fan-out legs are taken in path order, one
\* for each middleman, whatever the earlier legs came to, the settle sleep
\* is made once, the fan-in then visits the middlemen in the same order, all
\* of them by the time the run returns, and no retry loop calls send more
\* than max_attempts times, of at most 2 * k retry loops.
C19_LeafwayNeverAborts ==
    LeafwayOnlyTransactionErrors =>
       /\ exc.kind = "none" /\ pc # "failed"
       /\ \A p \in FanOutLegs :
             /\ log[p].hop = Cardinality({q \in FanOutLegs : q < p})
             /\ log[p].to = chain[log[p].hop + 1]
       /\ \A p \in FanInVisits :
             /\ log[p].hop = Cardinality({q \in FanInVisits : q < p})
             /\ log[p].from = chain[log[p].hop + 1]
       /\ Cardinality({r \in DOMAIN log : log[r].ev = "settle"})
             = IF pc \in FanInPositions \cup {"done"} THEN 1 ELSE 0
       /\ pc \in FanInPositions \cup {"done"} => Cardinality(FanOutLegs) = Len(chain)
       /\ pc = "done" => Cardinality(FanInVisits) = Len(chain)
       /\ tries <= max_attempts
       /\ LoopsEnded + (IF InRetryLoop THEN 1 ELSE 0) <= 2 * Len(chain)
       /\ LoopsEnded * max_attempts + (IF InRetryLoop THEN tries ELSE 0)
             <= 2 * Len(chain) * max_attempts

\* C19 witness: a run over the longest path returned although the retry
\* loop of its first fan-out leg and that of its last fan-in leg were used up.
C19_Witness ==
    /\ LeafwayOnlyTransactionErrors /\ pc = "done"
    /\ Len(chain) = MaxMiddlemen
    /\ \E p \in DOMAIN log : log[p].ev = "exhausted" /\ log[p].ph = "out" /\ log[p].hop = 0
    /\ \E p \in DOMAIN log :
          log[p].ev = "exhausted" /\ log[p].ph = "in" /\ log[p].hop = MaxMiddlemen - 1

\* C20: what getTransferFee and getBalance handed to a preflight comparison
\* (that of a Domino hop, of the fan-out, of a fan-in leg) is a number in
\* both cases; when the polls end without a text that parses, the call fails
\* instead of returning.
C20_QueriesNumeric ==
    pc \in {"d_preflight", "l_preflight", "l_in_check"}
    => IsNumber(transferFee) /\ IsNumber(balance)

\* The workers inside `async with semaphore`, those of them inside
\* _generateWalletWithRetry, and those inside `async with file_lock`.
InPool == {t \in Tasks : task[t].pc \in {"new_page", "generating", "lock", "write"}}
Generating == {t \in Tasks : task[t].pc \in {"new_page", "generating"}}
Writing == {t \in Tasks : task[t].pc = "write"}
WrittenLines(w) == {n \in 2..Len(outfp) : outfp[n] = WalletLine(w)}

\* C21: in a call of Wallet.generateBulk at most max_workers generations are
\* in progress at any time; at most one task is writing to the file, and the
\* file holds the header and then whole wallet lines only, each of a wallet
\* of the list, never twice; when the call returns, no generation having
\* failed for good, the list holds exactly `total` wallets, all different,
\* and each has its one line in the file.
C21_BoundedPool ==
    call \in {"gather", "returned", "raised"} =>
       /\ Cardinality(Generating) <= max_workers
       /\ Cardinality(InPool) <= max_workers
       /\ semaphore = max_workers - Cardinality(InPool)
       /\ Cardinality(Writing) <= 1
       /\ \A t \in Tasks : (file_lock = t) <=> (t \in Writing)
       /\ outfp[1] = Header
       /\ \A n \in 2..Len(outfp) :
             /\ \E q \in DOMAIN wallets : outfp[n] = WalletLine(wallets[q])
             /\ \A m \in 2..Len(outfp) : outfp[m] = outfp[n] => m = n
       /\ call = "returned"
          => /\ Len(wallets) = total
             /\ \A q, r \in DOMAIN wallets : wallets[q] = wallets[r] => q = r
             /\ \A q \in DOMAIN wallets : Cardinality(WrittenLines(wallets[q])) = 1
             /\ Len(outfp) = total + 1

\* C21 witness: generateBulk returned MaxTotal wallets made by a pool narrower
\* than that, one of them at a second attempt.
C21_Witness ==
    /\ call = "returned"
    /\ total = MaxTotal /\ max_workers >= 1 /\ max_workers < MaxTotal
    /\ \E t \in Tasks : task[t].attempt > 0

\* C22: a call of Wallet._generateWalletWithRetry makes at most max_retries
\* attempts; when it has returned, it returned the wallet of the attempt it
\* stopped at; when it has raised RuntimeError, max_retries attempts have
\* failed; and either way every page it opened is closed.
C22_RetryClosesPages ==
    call = "direct" =>
       /\ task[1].attempt <= max_retries
       /\ task[1].pc = "returned"
          => /\ task[1].attempt < max_retries
             /\ task[1].wallet = NewWallet(1, task[1].attempt)
             /\ pages = 0
       /\ task[1].pc = "raised"
          => /\ task[1].attempt = max_retries
             /\ pages = 0

====
